---- MODULE Spec2Model ----
(***************************************************************************)
(* Model of skills/md-tables/fix-md-tables.py: the markdown table reflower. *)
(*                                                                         *)
(* A Python str is a sequence of one-character strings; a list is a        *)
(* sequence.  Python indexes from 0, TLA+ from 1: a Python index i is the   *)
(* TLA+ index i + 1.  The pure functions of the script are operators that  *)
(* compute what the code computes; main() and align_table() are the        *)
(* actions that apply them.                                                *)
(***************************************************************************)
EXTENDS Integers, Sequences, FiniteSets, TLC

\* ------------------------------------------------------------------ bounds
MaxRows == 2      \* rows of a table block handed to align_table
MaxCols == 2      \* cells of a generated table row
MaxLines == 4     \* lines of a document
MaxRuns == 2      \* invocations of main() on one file

\* ------------------------------------------------------- characters, str
PIPE == "|"
DASH == "-"
COLON == ":"
SPACE == " "
NL == "\n"

\* The characters str.strip() removes (the model's texts hold no other
\* whitespace inside a line).
Whitespace == {SPACE}

Max(S) == CHOOSE x \in S : \A y \in S : y <= x
Min(S) == CHOOSE x \in S : \A y \in S : x <= y

\* str.lstrip() / str.rstrip() / str.strip()
RECURSIVE lstrip(_)
lstrip(s) == IF s # <<>> /\ s[1] \in Whitespace THEN lstrip(Tail(s)) ELSE s

RECURSIVE rstrip(_)
rstrip(s) ==
    IF s # <<>> /\ s[Len(s)] \in Whitespace THEN rstrip(SubSeq(s, 1, Len(s) - 1)) ELSE s

strip(s) == rstrip(lstrip(s))

\* str.startswith(c) / str.endswith(c) for a one-character c
startswith(s, c) == Len(s) > 0 /\ s[1] = c
endswith(s, c) == Len(s) > 0 /\ s[Len(s)] = c

\* str.split(sep) for a one-character sep: always at least one segment.
\* split_from scans s from index k on; cur is the segment being read.
RECURSIVE split_from(_, _, _, _)
split_from(s, sep, k, cur) ==
    IF k > Len(s) THEN <<cur>>
    ELSE IF s[k] = sep THEN <<cur>> \o split_from(s, sep, k + 1, <<>>)
    ELSE split_from(s, sep, k + 1, Append(cur, s[k]))

split(s, sep) == split_from(s, sep, 1, <<>>)

\* sep.join(parts)
RECURSIVE join(_, _)
join(parts, sep) ==
    IF parts = <<>> THEN <<>>
    ELSE IF Len(parts) = 1 THEN parts[1]
    ELSE parts[1] \o sep \o join(Tail(parts), sep)

\* c * n (a non-positive count gives the empty string)
repeat(c, n) == [k \in 1..(IF n > 0 THEN n ELSE 0) |-> c]

\* str.ljust(width)
ljust(s, width) == IF Len(s) >= width THEN s ELSE s \o repeat(SPACE, width - Len(s))

\* ------------------------------------------------------------ is_table_row
is_table_row(line) ==
    LET stripped == strip(line)
    IN  startswith(stripped, PIPE) /\ endswith(stripped, PIPE)

\* ------------------------------------------------------------- align_table
\* all(c in "-:" for c in cell): true of the empty cell
all_dash_colon(cell) == \A k \in 1..Len(cell) : cell[k] \in {DASH, COLON}

\* lines 56-58: one line parsed into its trimmed cells
parse_row(line) ==
    LET stripped == strip(line)
        parts == split(stripped, PIPE)
        cells == SubSeq(parts, 2, Len(parts) - 1)
    IN  [k \in 1..Len(cells) |-> strip(cells[k])]

\* lines 67-69: a row padded with empty cells up to num_cols
pad_row(row, num_cols) ==
    row \o [k \in 1..(IF num_cols > Len(row) THEN num_cols - Len(row) ELSE 0) |-> <<>>]

\* lines 79-82: what one cell contributes to its column's width
\* (fault variant: the floor of 3 left out)
cell_width_literal(cell) == Len(cell)

cell_width(cell) == IF all_dash_colon(cell) THEN 3 ELSE Len(cell)

\* lines 74-83: the max_width loop of one column, from row r on
\* (fault variant: the last row's width kept instead of the largest)
RECURSIVE max_width_last(_, _, _, _)
max_width_last(rows, col, r, acc) ==
    IF r > Len(rows) THEN acc
    ELSE max_width_last(rows, col, r + 1,
                        IF all_dash_colon(rows[r][col]) THEN 3 ELSE Len(rows[r][col]))

RECURSIVE max_width(_, _, _, _)
max_width(rows, col, r, acc) ==
    IF r > Len(rows) THEN acc
    ELSE LET w == IF col <= Len(rows[r]) THEN cell_width(rows[r][col]) ELSE 0
         IN  max_width(rows, col, r + 1, IF w > acc THEN w ELSE acc)

\* lines 91-103: one cell rendered at its column's width
\* (fault variant: the colons of a separator-style cell dropped)
render_cell_drop_markers(cell, width) ==
    IF all_dash_colon(cell) THEN repeat(DASH, width) ELSE ljust(cell, width)

\* (fault variant: a content cell not justified)
render_cell_no_pad(cell, width) ==
    IF all_dash_colon(cell)
    THEN IF startswith(cell, COLON) /\ endswith(cell, COLON)
              THEN <<COLON>> \o repeat(DASH, width - 2) \o <<COLON>>
         ELSE IF startswith(cell, COLON) THEN <<COLON>> \o repeat(DASH, width - 1)
         ELSE IF endswith(cell, COLON) THEN repeat(DASH, width - 1) \o <<COLON>>
         ELSE repeat(DASH, width)
    ELSE cell

render_cell(cell, width) ==
    IF all_dash_colon(cell)
    THEN IF startswith(cell, COLON) /\ endswith(cell, COLON)
              THEN <<COLON>> \o repeat(DASH, width - 2) \o <<COLON>>
         ELSE IF startswith(cell, COLON) THEN <<COLON>> \o repeat(DASH, width - 1)
         ELSE IF endswith(cell, COLON) THEN repeat(DASH, width - 1) \o <<COLON>>
         ELSE repeat(DASH, width)
    ELSE ljust(cell, width)

\* lines 53-69: the rows of a block, parsed and padded
padded_rows(table_lines) ==
    LET rows == [r \in 1..Len(table_lines) |-> parse_row(table_lines[r])]
        num_cols == Max({Len(rows[r]) : r \in 1..Len(rows)})
    IN  [r \in 1..Len(rows) |-> pad_row(rows[r], num_cols)]

\* lines 71-83
col_widths(rows) ==
    LET num_cols == Max({Len(rows[r]) : r \in 1..Len(rows)})
    IN  [col \in 1..num_cols |-> max_width(rows, col, 1, 0)]

\* line 104
render_row(row, widths) ==
    <<PIPE, SPACE>>
    \o join([c \in 1..Len(row) |-> render_cell(row[c], widths[c])], <<SPACE, PIPE, SPACE>>)
    \o <<SPACE, PIPE>>

align_table(table_lines) ==
    IF table_lines = <<>> THEN table_lines
    ELSE LET rows == padded_rows(table_lines)
             widths == col_widths(rows)
         IN  [r \in 1..Len(rows) |-> render_row(rows[r], widths)]

\* ---------------------------------------------------- fix_tables_in_content
\* lines 122-124: the index after the run of table rows that starts at i
RECURSIVE table_end(_, _)
table_end(lines, i) ==
    IF i <= Len(lines) /\ is_table_row(lines[i]) THEN table_end(lines, i + 1) ELSE i

\* line 127: a blank line goes before the block
\* (fault variant: the test of the previous output line left out)
blank_before_always(result) == TRUE

blank_before(result) == result # <<>> /\ strip(result[Len(result)]) # <<>>

\* line 135: a blank line goes after the block (i is the index after it)
\* (fault variant: no blank line after a block)
blank_after_never(lines, i) == FALSE

blank_after(lines, i) == i <= Len(lines) /\ strip(lines[i]) # <<>>

\* line 138: a line that is no table row goes to the output
\* (fault variant: the line trimmed on its way out)
pass_line_stripped(result, line) == Append(result, strip(line))

pass_line(result, line) == Append(result, line)

\* lines 115-139: the while loop, from index i on
RECURSIVE fix_loop(_, _, _)
fix_loop(lines, i, result) ==
    IF i > Len(lines) THEN result
    ELSE IF is_table_row(lines[i])
    THEN LET j == table_end(lines, i)
             table_lines_ == SubSeq(lines, i, j - 1)
             r1 == IF blank_before(result) THEN Append(result, <<>>) ELSE result
             r2 == r1 \o align_table(table_lines_)
             r3 == IF blank_after(lines, j) THEN Append(r2, <<>>) ELSE r2
         IN  fix_loop(lines, j, r3)
    ELSE fix_loop(lines, i + 1, pass_line(result, lines[i]))

fix_tables_in_content(text) ==
    LET lines == split(text, NL)
        result == fix_loop(lines, 1, <<>>)
    IN  join([k \in 1..Len(result) |-> result[k]], <<NL>>)

\* ------------------------------------------------------------------ inputs
\* Raw cells of a generated row, as they stand between two pipes.
RichCells ==
    { <<>>,
      <<COLON>>,
      <<COLON, DASH>>,
      <<SPACE, DASH, COLON, SPACE>>,
      <<DASH, DASH, DASH, DASH, DASH>>,
      <<"a", "b", "c", "d", SPACE>> }

TailCells == { <<>>, <<SPACE, "a", SPACE>> }

\* The cell lists of a row of n cells: any cell first, the simpler ones after.
RowCells(n) ==
    IF n = 0 THEN {<<>>}
    ELSE {<<c>> \o t : c \in RichCells, t \in [1..(n - 1) -> TailCells]}

\* The line of a cell list: indented, a pipe before, between and after the
\* cells.  No cell gives the one-pipe line.
RECURSIVE row_line(_)
row_line(cells) ==
    IF cells = <<>> THEN <<PIPE>> ELSE row_line(SubSeq(cells, 1, Len(cells) - 1)) \o cells[Len(cells)] \o <<PIPE>>

RowLines == UNION {{<<SPACE>> \o row_line(cs) : cs \in RowCells(n)} : n \in 0..MaxCols}

Blocks == UNION {[1..n -> RowLines] : n \in 1..MaxRows}

\* The lines of a generated document.
DocLines ==
    { <<>>,
      <<SPACE>>,
      <<SPACE, "a", PIPE>>,
      <<PIPE>>,
      <<SPACE, PIPE, "a", PIPE>>,
      <<PIPE, DASH, COLON, PIPE, PIPE, SPACE>> }

Docs == UNION {{join(ls, <<NL>>) : ls \in [1..n -> DocLines]} : n \in 1..MaxLines}

\* ------------------------------------------------------------------- state
VARIABLES
    file,           \* the text of the file main() is run on
    content,        \* what the last run of main() read from the file
    fixed,          \* what fix_tables_in_content returned in that run
    stdout,         \* what that run printed
    runs,           \* runs of main() that rewrote the file
    rewritten,      \* the file holds what an --in-place run wrote
    reread,         \* the last run read a text an --in-place run had written
    table_lines,    \* the argument of align_table
    aligned_lines,  \* what align_table returned
    called          \* align_table has returned

vars == <<file, content, fixed, stdout, runs, rewritten, reread,
          table_lines, aligned_lines, called>>

doc_vars == <<file, content, fixed, stdout, runs, rewritten, reread>>
block_vars == <<table_lines, aligned_lines, called>>

\* lines 156-161: main() with --in-place
MainInPlace ==
    /\ runs < MaxRuns
    /\ content' = file
    /\ fixed' = fix_tables_in_content(file)
    /\ file' = fixed'
    /\ stdout' = "Fixed tables in"
    /\ runs' = runs + 1
    /\ reread' = rewritten
    /\ rewritten' = TRUE
    /\ UNCHANGED block_vars

\* lines 156-163: main() without the flag
MainPrint ==
    /\ stdout # "fixed"
    /\ content' = file
    /\ fixed' = fix_tables_in_content(file)
    /\ stdout' = "fixed"
    /\ reread' = rewritten
    /\ UNCHANGED <<file, runs, rewritten, block_vars>>

\* lines 48-106: a call of align_table
AlignTable ==
    /\ ~called
    /\ aligned_lines' = align_table(table_lines)
    /\ called' = TRUE
    /\ UNCHANGED <<table_lines, doc_vars>>

NoDoc ==
    /\ file = <<>> /\ content = <<>> /\ fixed = <<>> /\ stdout = "" /\ runs = 0
    /\ rewritten = FALSE /\ reread = FALSE

NoBlock == table_lines = <<>> /\ aligned_lines = <<>> /\ called = FALSE

Init ==
    /\ file \in Docs
    /\ content = <<>> /\ fixed = <<>> /\ stdout = "" /\ runs = 0
    /\ rewritten = FALSE /\ reread = FALSE
    /\ NoBlock

Next == MainInPlace \/ MainPrint

Spec == Init /\ [][Next]_vars

InitAlign ==
    /\ NoDoc
    /\ table_lines \in Blocks
    /\ aligned_lines = <<>>
    /\ called = FALSE

NextAlign == AlignTable

SpecAlign == InitAlign /\ [][NextAlign]_vars

\* ------------------------------------------------- reading a rendered block
\* The texts between the "| ", " | " and " |" delimiters of a rendered line.
rendered_cells(line) ==
    LET parts == split(line, PIPE)
        inner == SubSeq(parts, 2, Len(parts) - 1)
    IN  [k \in 1..Len(inner) |-> SubSeq(inner[k], 2, Len(inner[k]) - 1)]

\* A call of align_table as the claims read it: the input rows as the code
\* parses and pads them, the widths it computes, and the cells of the lines
\* it returned.
Call ==
    LET rows == padded_rows(table_lines)
    IN  [rows |-> rows,
         ncols |-> Len(rows[1]),
         widths |-> col_widths(rows),
         out |-> [r \in 1..Len(aligned_lines) |-> rendered_cells(aligned_lines[r])]]

\* A cell of dashes and colons only; the empty cell is one.
SeparatorStyle(cell) == \A k \in 1..Len(cell) : cell[k] = DASH \/ cell[k] = COLON

\* A row that has at least one cell with real content.
ContentRow(row) == \E c \in 1..Len(row) : ~SeparatorStyle(row[c])

\* C5: in a rendered block every row has a cell for every column, and the
\* cell of column c is exactly col_widths[c] characters long, whether it is a
\* dash run (with or without colons) or left-justified content.
WidthInvariant ==
    called =>
        LET v == Call
        IN  \A r \in 1..Len(v.out) :
                /\ Len(v.out[r]) >= v.ncols
                /\ \A c \in 1..v.ncols : Len(v.out[r][c]) = v.widths[c]

\* C5 witness: a column wider than 3 that holds a colon-marked dash cell and
\* a content cell.
WidthWitness ==
    /\ called
    /\ LET v == Call
       IN  \E c \in 1..v.ncols :
            /\ v.widths[c] > 3
            /\ \E r \in 1..Len(v.rows) :
                  SeparatorStyle(v.rows[r][c]) /\ endswith(v.rows[r][c], COLON)
            /\ \E r \in 1..Len(v.rows) : ~SeparatorStyle(v.rows[r][c])

\* C6: a rendered block has as many rows as the input block, and every
\* rendered row has as many cells as the longest input row.
ColumnCountInvariant ==
    called =>
        /\ Len(aligned_lines) = Len(table_lines)
        /\ \A r \in 1..Len(aligned_lines) :
              Len(parse_row(aligned_lines[r]))
                  = Max({Len(parse_row(table_lines[q])) : q \in 1..Len(table_lines)})

\* C7: a non-empty separator-style cell keeps its leading colon and its
\* trailing colon, and gets none it did not have.
MarkerPreservation ==
    called =>
        LET v == Call
        IN  \A r \in 1..Len(v.rows) : \A c \in 1..v.ncols :
                (v.rows[r][c] # <<>> /\ SeparatorStyle(v.rows[r][c])) =>
                    /\ startswith(v.out[r][c], COLON) <=> startswith(v.rows[r][c], COLON)
                    /\ endswith(v.out[r][c], COLON) <=> endswith(v.rows[r][c], COLON)

\* C7 witness: the one-character cell ":" in a column wider than 3, rendered
\* with both colons.
MarkerWitness ==
    /\ called
    /\ LET v == Call
       IN  \E r \in 1..Len(v.rows) : \E c \in 1..v.ncols :
            /\ v.rows[r][c] = <<COLON>>
            /\ Len(v.out[r][c]) > 3
            /\ startswith(v.out[r][c], COLON) /\ endswith(v.out[r][c], COLON)

\* C8: the width a column is rendered at is the largest, over the padded
\* rows, of 3 for a cell of dashes and colons (the empty cell included) and
\* of the cell's length for any other cell.
WidthFormula ==
    called =>
        LET v == Call
        IN  \A c \in 1..v.ncols : \A r \in 1..Len(v.out) :
                Len(v.out[r][c])
                    = Max({IF SeparatorStyle(v.rows[q][c]) THEN 3 ELSE Len(v.rows[q][c]) :
                              q \in 1..Len(v.rows)})

\* C8 witness: a column of width 3 that holds a dash run longer than 3, next
\* to a column whose width is the length of its content.
WidthFormulaWitness ==
    /\ called
    /\ LET v == Call
       IN  /\ \E c \in 1..v.ncols :
                /\ \E r \in 1..Len(v.rows) :
                      SeparatorStyle(v.rows[r][c]) /\ Len(v.rows[r][c]) > 3
                /\ \A r \in 1..Len(v.out) : Len(v.out[r][c]) = 3
           /\ \E c \in 1..v.ncols : \A r \in 1..Len(v.out) : Len(v.out[r][c]) = 1

\* C9: an empty cell of a row with real content is rendered as content, that
\* is as col_widths[c] spaces.
EmptyCellIsContent ==
    called =>
        LET v == Call
        IN  \A r \in 1..Len(v.rows) : \A c \in 1..v.ncols :
                (ContentRow(v.rows[r]) /\ v.rows[r][c] = <<>>) =>
                    v.out[r][c] = [k \in 1..v.widths[c] |-> SPACE]

\* C10: a cell rendered by the separator-style branch is in a column at least
\* 3 wide, so each dash count of the branch is at least 1.
MarkerWidthGuard ==
    called =>
        LET v == Call
        IN  \A r \in 1..Len(v.rows) : \A c \in 1..v.ncols :
                all_dash_colon(v.rows[r][c]) =>
                    /\ v.widths[c] >= 3
                    /\ \E k \in 1..Len(v.out[r][c]) : v.out[r][c][k] = DASH

\* C10 witness: a ragged block whose short row is padded, with a cell made
\* only of colons in one column and, in another, a one-character content cell
\* over the empty cell the padding added.
MarkerWidthWitness ==
    /\ called
    /\ Len(parse_row(table_lines[1])) > Len(parse_row(table_lines[Len(table_lines)]))
    /\ LET v == Call
       IN  /\ \E r \in 1..Len(v.rows) : \E c \in 1..v.ncols : v.rows[r][c] = <<COLON>>
           /\ \E c \in 1..v.ncols :
                /\ Len(v.rows[1][c]) = 1 /\ ~all_dash_colon(v.rows[1][c])
                /\ v.rows[Len(v.rows)][c] = <<>>

\* ------------------------------------------------ reading a run of main()
blank(line) == strip(line) = <<>>
not_table_row(line) == ~is_table_row(line)

\* The first and the last lines of the table blocks of a list of lines.
Starts(ls) ==
    {i \in 1..Len(ls) : is_table_row(ls[i]) /\ (i = 1 \/ ~is_table_row(ls[i - 1]))}
Ends(ls) ==
    {i \in 1..Len(ls) : is_table_row(ls[i]) /\ (i = Len(ls) \/ ~is_table_row(ls[i + 1]))}

\* The number of elements of S up to i: the block of a start or an end.
Rank(S, i) == Cardinality({x \in S : x <= i})

\* The nearest non-blank line after line e (Len + 1 if none) and before
\* line s (0 if none).
NextNonBlank(ls, e) == Min({q \in (e + 1)..(Len(ls) + 1) : q = Len(ls) + 1 \/ ~blank(ls[q])})
PrevNonBlank(ls, s) == Max({q \in 0..(s - 1) : q = 0 \/ ~blank(ls[q])})

\* The lines of seq at the positions P, in order.
Pick(seq, P) ==
    [k \in 1..Cardinality(P) |-> seq[CHOOSE x \in P : Cardinality({y \in P : y <= x}) = k]]

\* The last run of main(): the lines it read, the lines it produced, and the
\* block sides of the input that touch a non-blank line.
Run ==
    LET in == split(content, NL)
    IN  [in |-> in,
         out |-> split(fixed, NL),
         touchBefore |-> {s \in Starts(in) : s > 1 /\ ~blank(in[s - 1])},
         touchAfter |-> {e \in Ends(in) : e < Len(in) /\ ~blank(in[e + 1])}]

ran == stdout # ""

\* C1: a run on a text that an earlier run produced gives that text back.
Idempotent == reread => fixed = content

\* C2: the output without its table rows and without the blank lines the run
\* put next to a block is the list of the input's non-table lines, and each
\* block has the same non-table lines before it as in the input.
NonTableVerbatim ==
    ran =>
        LET v == Run
            pads == {p \in 1..Len(v.out) :
                        \/ \E s \in v.touchBefore : \E t \in Starts(v.out) :
                              Rank(Starts(v.in), s) = Rank(Starts(v.out), t) /\ p = t - 1
                        \/ \E e \in v.touchAfter : \E t \in Ends(v.out) :
                              Rank(Ends(v.in), e) = Rank(Ends(v.out), t) /\ p = t + 1}
            kept == {p \in 1..Len(v.out) : ~is_table_row(v.out[p]) /\ p \notin pads}
        IN  /\ \A p \in pads : v.out[p] = <<>>
            /\ Pick(v.out, kept) = SelectSeq(v.in, not_table_row)
            /\ Cardinality(Starts(v.out)) = Cardinality(Starts(v.in))
            /\ \A s \in Starts(v.in) : \A t \in Starts(v.out) :
                  Rank(Starts(v.in), s) = Rank(Starts(v.out), t) =>
                      Cardinality({p \in kept : p < t})
                          = Cardinality({q \in 1..(s - 1) : ~is_table_row(v.in[q])})

\* C2 witness: a run whose input has a whitespace-only line and a line of
\* prose with outer whitespace right before a table row.
NonTableWitness ==
    /\ ran
    /\ LET v == Run
       IN  /\ \E i \in 1..Len(v.in) : v.in[i] = <<SPACE>>
           /\ \E s \in v.touchBefore : strip(v.in[s - 1]) # v.in[s - 1]
           /\ v.out # v.in

\* C3 as stated: on each side of each output block where the nearest
\* non-blank line is a non-table line, exactly one blank line lies between.
ExactlyOneBlank ==
    ran =>
        LET v == Run
        IN  /\ \A e \in Ends(v.out) :
                  LET n == NextNonBlank(v.out, e)
                  IN  (n <= Len(v.out) /\ ~is_table_row(v.out[n])) => n - e - 1 = 1
            /\ \A s \in Starts(v.out) :
                  LET n == PrevNonBlank(v.out, s)
                  IN  (n >= 1 /\ ~is_table_row(v.out[n])) => s - n - 1 = 1

\* C3 amended: on each side of each output block where a non-blank line
\* exists, at least one blank line lies between the block and the nearest
\* such line: one if the input had none or one there, else as many as the
\* input had.
AtLeastOneBlank ==
    ran =>
        LET v == Run
        IN  /\ Cardinality(Ends(v.out)) = Cardinality(Ends(v.in))
            /\ \A e \in Ends(v.in) : \A t \in Ends(v.out) :
                  (Rank(Ends(v.in), e) = Rank(Ends(v.out), t)
                      /\ NextNonBlank(v.out, t) <= Len(v.out)) =>
                      LET had == NextNonBlank(v.in, e) - e - 1
                          has == NextNonBlank(v.out, t) - t - 1
                      IN  has >= 1 /\ has = (IF had <= 1 THEN 1 ELSE had)
            /\ \A s \in Starts(v.in) : \A t \in Starts(v.out) :
                  (Rank(Starts(v.in), s) = Rank(Starts(v.out), t)
                      /\ PrevNonBlank(v.out, t) >= 1) =>
                      LET had == s - PrevNonBlank(v.in, s) - 1
                          has == t - PrevNonBlank(v.out, t) - 1
                      IN  has >= 1 /\ has = (IF had <= 1 THEN 1 ELSE had)

\* C3 witness: a block followed in the input by two blank lines and then a
\* line of prose, and the output of the run on it.
SeveralBlanksWitness ==
    /\ ran
    /\ LET v == Run
       IN  \E e \in Ends(v.in) :
            /\ NextNonBlank(v.in, e) = e + 3
            /\ e + 3 <= Len(v.in)
            /\ ~is_table_row(v.in[e + 3])
            /\ Len(v.out) = Len(v.in)

\* C4: the run adds one empty line before a block iff the block's previous
\* source line exists and is non-blank, one after it iff its next source line
\* exists and is non-blank, and no other line; so an input whose blocks touch
\* no non-blank line keeps its number of lines.
BlankLinesOnlyWhereNeeded ==
    ran =>
        LET v == Run
            added(i) == Cardinality({x \in v.touchBefore : x <= i})
                            + Cardinality({x \in v.touchAfter : x < i})
        IN  /\ Len(v.out) = Len(v.in) + Cardinality(v.touchBefore)
                                + Cardinality(v.touchAfter)
            /\ Starts(v.out) = {s + added(s) : s \in Starts(v.in)}
            /\ Ends(v.out) = {e + added(e) : e \in Ends(v.in)}
            /\ \A s \in v.touchBefore : v.out[s + added(s) - 1] = <<>>
            /\ \A e \in v.touchAfter : v.out[e + added(e) + 1] = <<>>
            /\ (v.touchBefore = {} /\ v.touchAfter = {}) => Len(v.out) = Len(v.in)

\* C4 witness: a block at the start of the document that is followed by a
\* blank line, and a block that touches a line of prose, in one input.
BlankLinesWitness ==
    /\ ran
    /\ LET v == Run
       IN  /\ 1 \in Starts(v.in)
           /\ \E e \in Ends(v.in) : e < Len(v.in) /\ blank(v.in[e + 1])
           /\ v.touchAfter # {}
           /\ Len(v.out) = Len(v.in) + 1

====
